---- MODULE Spec2Model ----
(***************************************************************************)
(* Model of src/src/player.rs: the Player aggregate, its two constructors, *)
(* the record merge / projection, and the GameInfo staleness machine       *)
(* (next_cycle, acknowledge, should_prune).                                *)
(*                                                                         *)
(* Option<T> is modelled as a sequence: None is <<>>, Some(v) is <<v>>.    *)
(* The u32 staleness counter keeps its width: it is held as two 16-bit    *)
(* limbs [hi, lo] of value hi * 2^16 + lo, and `+= 1` carries between     *)
(* them.  The other u32 fields are only copied and are plain naturals.    *)
(***************************************************************************)
EXTENDS Integers, Sequences, FiniteSets, TLC

VARIABLES
    player,     \* Option<Player>: the entity under observation
    ret,        \* Option<PlayerRecord>: what the last call returned, if a record
    logged,     \* did the last call emit tracing::error!
    panicked,   \* did a call abort on arithmetic overflow (overflow checks on)
    lastOp,     \* history: name of the last call
    prev,       \* history: `player` before the last call
    arg,        \* history: Option<argument of the last call>
    cycles,     \* history: consecutive next_cycle calls since construction/acknowledge
    discCycles, \* history: consecutive next_cycle calls entered in state Disconnected
    base,       \* history: Option<state held when the counter was last reset to 0>
    acks,       \* history: acknowledge calls since construction/next_cycle (0, 1, 2 = more)
    born,       \* history: Option<steamid and local user the entity was constructed from>
    phase,      \* registry driver: step of the polling cycle ("idle" when undriven)
    hist,       \* registry driver: what each past cycle observed of the entity
    decoded     \* codecs: Option<the last enumeration decode: input, result, re-encoding>

core ==
    <<player, ret, logged, panicked, lastOp, prev, arg, cycles, discCycles, base, acks,
      born>>

driver == <<phase, hist>>

vars == <<core, driver, decoded>>

----------------------------------------------------------------------------
(* Option<T> *)

None == <<>>

Some(v) == <<v>>

unwrap_or(o, d) == IF o = <<>> THEN d ELSE o[1]

----------------------------------------------------------------------------
(* Bounds of the explored input space *)

\* next_cycle is explored while last_seen is below MaxSeen ...
MaxSeen == 7

\* ... and within WideBelow of the top of the u32 range.
WideBelow == 2

\* integers offered to the enumeration decoders: 0..MaxCode as u32,
\* -MaxCode..MaxCode as i32
MaxCode == 99

\* number of distinct identity keys
MaxSteamID == 2

----------------------------------------------------------------------------
(* Program constants *)

\* radix of the two limbs of a u32
Limb == 2^16

DISCONNECTED_THRESHOLD == 1

CYCLE_LIMIT == 5

----------------------------------------------------------------------------
(* u32 arithmetic on the staleness counter *)

U32(n) == [hi |-> n \div Limb, lo |-> n % Limb]

U32Max == [hi |-> Limb - 1, lo |-> Limb - 1]

\* `x + 1` with overflow checks off: wraps to 0 at u32::MAX
wrapping_add1(x) ==
    IF x.lo < Limb - 1 THEN [x EXCEPT !.lo = @ + 1]
    ELSE [hi |-> (x.hi + 1) % Limb, lo |-> 0]

\* `a < b` on u32
U32Less(a, b) == a.hi < b.hi \/ (a.hi = b.hi /\ a.lo < b.lo)

\* `x > n` on u32
U32Greater(x, n) == U32Less(U32(n), x)

----------------------------------------------------------------------------
(* Enumerations *)

PlayerState == {"Active", "Spawning", "Disconnected"}

Team == {"Unassigned", "Spectators", "Red", "Blu"}

\* player_records::Verdict; only Verdict::Player is named in player.rs
Verdict == {"Player", "Cheater"}

ProfileVisibility == {"Private", "FriendsOnly", "Public"}

\* Result<T, E>
Ok(v) == [ok |-> TRUE, val |-> v]

Err(e) == [ok |-> FALSE, val |-> e]

\* mutant: an out-of-range value falls back to the first variant
Team_try_from_defaulting(val) ==
    CASE val = 0 -> Ok("Unassigned")
      [] val = 1 -> Ok("Spectators")
      [] val = 2 -> Ok("Red")
      [] val = 3 -> Ok("Blu")
      [] OTHER -> Ok("Unassigned")

Team_try_from(val) ==
    CASE val = 0 -> Ok("Unassigned")
      [] val = 1 -> Ok("Spectators")
      [] val = 2 -> Ok("Red")
      [] val = 3 -> Ok("Blu")
      [] OTHER -> Err("Not a valid team value")

\* `*self as u32`: the declared discriminant
Team_as_u32(team) ==
    CASE team = "Unassigned" -> 0
      [] team = "Spectators" -> 1
      [] team = "Red" -> 2
      [] team = "Blu" -> 3

ProfileVisibility_from(value) ==
    CASE value = 1 -> "Private"
      [] value = 2 -> "FriendsOnly"
      [] value = 3 -> "Public"
      [] OTHER -> "Private"

\* the declared discriminant
ProfileVisibility_as_i32(v) ==
    CASE v = "Private" -> 1
      [] v = "FriendsOnly" -> 2
      [] v = "Public" -> 3

----------------------------------------------------------------------------
(* Input domains *)

SteamIDs == 1..MaxSteamID

\* serde_json::Value payloads: the empty object and one non-empty object
EmptyObject == "{}"

CustomData == {EmptyObject, "{\"note\":\"x\"}"}

NameLists == {<<>>, <<"old">>}

PlayerRecords ==
    [steamid: SteamIDs, custom_data: CustomData, verdict: Verdict,
     previous_names: NameLists]

StatusLines ==
    [name: {"alice"}, steamid: SteamIDs, userid: {"7"}, time: {30}, ping: {50},
     loss: {2}, state: PlayerState]

OptOf(S) == {None} \cup {Some(v) : v \in S}

G15Players ==
    [steamid: OptOf(SteamIDs), name: OptOf({"alice"}), userid: OptOf({"7"}),
     team: OptOf({"Red"}), ping: OptOf({50}), score: OptOf({4}),
     deaths: OptOf({3})]

Users == OptOf(SteamIDs)

----------------------------------------------------------------------------
(* GameInfo *)

\* mutant: kills and deaths read each other's source field
GameInfo_new_from_g15_swapped(g15) ==
    IF g15.userid = None THEN None
    ELSE Some([userid |-> g15.userid[1],
               team |-> unwrap_or(g15.team, "Unassigned"),
               time |-> 0,
               ping |-> unwrap_or(g15.ping, 0),
               loss |-> 0,
               state |-> "Active",
               kills |-> unwrap_or(g15.deaths, 0),
               deaths |-> unwrap_or(g15.score, 0),
               last_seen |-> U32(0)])

GameInfo_new_from_g15(g15) ==
    IF g15.userid = None THEN None
    ELSE Some([userid |-> g15.userid[1],
               team |-> unwrap_or(g15.team, "Unassigned"),
               time |-> 0,
               ping |-> unwrap_or(g15.ping, 0),
               loss |-> 0,
               state |-> "Active",
               kills |-> unwrap_or(g15.score, 0),
               deaths |-> unwrap_or(g15.deaths, 0),
               last_seen |-> U32(0)])

GameInfo_new_from_status(status) ==
    [userid |-> status.userid,
     team |-> "Unassigned",
     time |-> status.time,
     ping |-> status.ping,
     loss |-> status.loss,
     state |-> status.state,
     kills |-> 0,
     deaths |-> 0,
     last_seen |-> U32(0)]

\* mutant: `>=` for `>` in the disconnect test
next_cycle_at_threshold(gi) ==
    LET seen == wrapping_add1(gi.last_seen)
    IN  [gi EXCEPT !.last_seen = seen,
                   !.state = IF ~U32Less(seen, U32(DISCONNECTED_THRESHOLD))
                             THEN "Disconnected" ELSE @]

\* mutant: the disconnect test reads the prune limit
next_cycle_prune_limit(gi) ==
    LET seen == wrapping_add1(gi.last_seen)
    IN  [gi EXCEPT !.last_seen = seen,
                   !.state = IF U32Greater(seen, CYCLE_LIMIT)
                             THEN "Disconnected" ELSE @]

\* mutant: the disconnect test allows one more unacknowledged cycle
next_cycle_one_later(gi) ==
    LET seen == wrapping_add1(gi.last_seen)
    IN  [gi EXCEPT !.last_seen = seen,
                   !.state = IF U32Greater(seen, DISCONNECTED_THRESHOLD + 1)
                             THEN "Disconnected" ELSE @]

\* self.last_seen += 1 on a u32 with overflow checks off (wraps)
next_cycle(gi) ==
    LET seen == wrapping_add1(gi.last_seen)
    IN  [gi EXCEPT !.last_seen = seen,
                   !.state = IF U32Greater(seen, DISCONNECTED_THRESHOLD)
                             THEN "Disconnected" ELSE @]

\* mutant: a reappearing entity goes straight back to Active
acknowledge_to_active(gi) ==
    [gi EXCEPT !.last_seen = U32(0),
               !.state = IF @ = "Disconnected" THEN "Active" ELSE @]

\* mutant: every acknowledge promotes one step towards Active
acknowledge_promote(gi) ==
    [gi EXCEPT !.last_seen = U32(0),
               !.state = IF @ = "Disconnected" THEN "Spawning" ELSE "Active"]

\* mutant: the staleness counter is not reset
acknowledge_no_reset(gi) ==
    [gi EXCEPT !.state = IF @ = "Disconnected" THEN "Spawning" ELSE @]

\* mutant: the state is not taken out of Disconnected
acknowledge_keep_state(gi) == [gi EXCEPT !.last_seen = U32(0)]

acknowledge(gi) ==
    [gi EXCEPT !.last_seen = U32(0),
               !.state = IF @ = "Disconnected" THEN "Spawning" ELSE @]

\* mutant: `>=` for `>` in the prune test
should_prune_at_limit(gi) == ~U32Less(gi.last_seen, U32(CYCLE_LIMIT))

should_prune(gi) == U32Greater(gi.last_seen, CYCLE_LIMIT)

----------------------------------------------------------------------------
(* Player *)

\* mutant: an absent local user counts as a match
is_self_of_absent_matches(user, steamid) ==
    IF user = None THEN TRUE ELSE user[1] = steamid

is_self_of(user, steamid) == IF user = None THEN FALSE ELSE user[1] = steamid

Player_new_from_status(status, user) ==
    [name |-> status.name,
     steamid |-> status.steamid,
     is_self |-> is_self_of(user, status.steamid),
     game_info |-> GameInfo_new_from_status(status),
     steam_info |-> None,
     custom_data |-> EmptyObject,
     tags |-> <<>>,
     local_verdict |-> "Player",
     convicted |-> FALSE,
     previous_names |-> <<>>]

\* mutant: an absent name is defaulted instead of failing the construction
Player_new_from_g15_default_name(g15, user) ==
    IF g15.steamid = None THEN None
    ELSE IF GameInfo_new_from_g15(g15) = None THEN None
    ELSE Some([name |-> unwrap_or(g15.name, ""),
               steamid |-> g15.steamid[1],
               is_self |-> is_self_of(user, g15.steamid[1]),
               game_info |-> GameInfo_new_from_g15(g15)[1],
               steam_info |-> None,
               custom_data |-> EmptyObject,
               tags |-> <<>>,
               local_verdict |-> "Player",
               convicted |-> FALSE,
               previous_names |-> <<>>])

Player_new_from_g15(g15, user) ==
    IF g15.steamid = None THEN None
    ELSE IF GameInfo_new_from_g15(g15) = None THEN None
    ELSE IF g15.name = None THEN None
    ELSE Some([name |-> g15.name[1],
               steamid |-> g15.steamid[1],
               is_self |-> is_self_of(user, g15.steamid[1]),
               game_info |-> GameInfo_new_from_g15(g15)[1],
               steam_info |-> None,
               custom_data |-> EmptyObject,
               tags |-> <<>>,
               local_verdict |-> "Player",
               convicted |-> FALSE,
               previous_names |-> <<>>])

\* the early return of update_from_record
wrong_record(p, r) == r.steamid # p.steamid

\* mutant: no identity check
update_from_record_unchecked(p, r) ==
    [p EXCEPT !.custom_data = r.custom_data,
              !.local_verdict = r.verdict,
              !.previous_names = r.previous_names]

\* mutant: the prior names are not overwritten
update_from_record_keep_names(p, r) ==
    IF wrong_record(p, r) THEN p
    ELSE [p EXCEPT !.custom_data = r.custom_data,
                   !.local_verdict = r.verdict]

\* mutant: the entity takes over the identity of whatever record it is given
update_from_record_rekey(p, r) ==
    [p EXCEPT !.steamid = r.steamid,
              !.custom_data = r.custom_data,
              !.local_verdict = r.verdict,
              !.previous_names = r.previous_names]

update_from_record(p, r) ==
    IF wrong_record(p, r) THEN p
    ELSE [p EXCEPT !.custom_data = r.custom_data,
                   !.local_verdict = r.verdict,
                   !.previous_names = r.previous_names]

\* mutant: the prior names are not copied into the record
get_record_no_names(p) ==
    [steamid |-> p.steamid,
     custom_data |-> p.custom_data,
     verdict |-> p.local_verdict,
     previous_names |-> <<>>]

get_record(p) ==
    [steamid |-> p.steamid,
     custom_data |-> p.custom_data,
     verdict |-> p.local_verdict,
     previous_names |-> p.previous_names]

----------------------------------------------------------------------------
(* State machine: one entity, driven by arbitrary calls *)

P == player[1]

GI == player[1].game_info

Live == player # None /\ ~panicked

\* the history counters stop counting at HistCap ("HistCap or more")
HistCap == MaxSeen + 1

Count(n) == IF n < HistCap THEN n + 1 ELSE n

InitCore ==
    /\ player = None
    /\ ret = None
    /\ logged = FALSE
    /\ panicked = FALSE
    /\ lastOp = "none"
    /\ prev = None
    /\ arg = None
    /\ cycles = 0
    /\ discCycles = 0
    /\ base = None
    /\ acks = 0
    /\ born = None

Init == InitCore /\ phase = "idle" /\ hist = <<>> /\ decoded = None

NewFromStatus ==
    /\ player = None
    /\ \E status \in StatusLines, user \in Users :
        /\ player' = Some(Player_new_from_status(status, user))
        /\ arg' = Some([status |-> status, user |-> user])
        /\ base' = Some(status.state)
        /\ born' = Some([steamid |-> status.steamid, user |-> user])
    /\ lastOp' = "new_from_status"
    /\ prev' = player
    /\ logged' = FALSE
    /\ cycles' = 0
    /\ discCycles' = 0
    /\ acks' = 0
    /\ ret' = None
    /\ UNCHANGED panicked

NewFromG15 ==
    /\ player = None
    /\ \E g15 \in G15Players, user \in Users :
        /\ player' = Player_new_from_g15(g15, user)
        /\ arg' = Some([g15 |-> g15, user |-> user])
        /\ born' = IF player' = None THEN None
                   ELSE Some([steamid |-> g15.steamid[1], user |-> user])
    /\ base' = IF player' = None THEN None ELSE Some(player'[1].game_info.state)
    /\ lastOp' = "new_from_g15"
    /\ prev' = player
    /\ logged' = FALSE
    /\ cycles' = 0
    /\ discCycles' = 0
    /\ acks' = 0
    /\ ret' = None
    /\ UNCHANGED panicked

\* the range of last_seen in which next_cycle is explored
InExploredRange(seen) ==
    \/ U32Less(seen, U32(MaxSeen))
    \/ (seen.hi = Limb - 1 /\ seen.lo >= Limb - 1 - WideBelow)

NextCycle ==
    /\ Live
    /\ InExploredRange(GI.last_seen)
    /\ player' = Some([P EXCEPT !.game_info = next_cycle(GI)])
    /\ lastOp' = "next_cycle"
    /\ prev' = player
    /\ arg' = None
    /\ logged' = FALSE
    /\ cycles' = Count(cycles)
    /\ discCycles' = IF GI.state = "Disconnected" THEN Count(discCycles) ELSE 0
    /\ acks' = 0
    /\ ret' = None
    /\ UNCHANGED <<panicked, base, born>>

\* self.last_seen += 1 with overflow checks on: the call panics before the store
NextCycleOverflowPanic ==
    /\ Live
    /\ GI.last_seen = U32Max
    /\ panicked' = TRUE
    /\ lastOp' = "next_cycle"
    /\ prev' = player
    /\ arg' = None
    /\ logged' = FALSE
    /\ ret' = None
    /\ UNCHANGED <<player, cycles, discCycles, base, acks, born>>

Acknowledge ==
    /\ Live
    /\ player' = Some([P EXCEPT !.game_info = acknowledge(GI)])
    /\ lastOp' = "acknowledge"
    /\ prev' = player
    /\ arg' = None
    /\ logged' = FALSE
    /\ cycles' = 0
    /\ discCycles' = 0
    /\ base' = Some(acknowledge(GI).state)
    /\ acks' = IF acks < 2 THEN acks + 1 ELSE acks
    /\ ret' = None
    /\ UNCHANGED <<panicked, born>>

UpdateFromRecord ==
    /\ Live
    /\ \E r \in PlayerRecords :
        /\ player' = Some(update_from_record(P, r))
        /\ logged' = wrong_record(P, r)
        /\ arg' = Some(r)
    /\ lastOp' = "update_from_record"
    /\ prev' = player
    /\ ret' = None
    /\ UNCHANGED <<panicked, cycles, discCycles, base, acks, born>>

GetRecord ==
    /\ Live
    /\ ret' = Some(get_record(P))
    /\ lastOp' = "get_record"
    /\ prev' = player
    /\ arg' = None
    /\ logged' = FALSE
    /\ UNCHANGED <<player, panicked, cycles, discCycles, base, acks, born>>

Next ==
    \/ NewFromStatus /\ UNCHANGED <<driver, decoded>>
    \/ NewFromG15 /\ UNCHANGED <<driver, decoded>>
    \/ NextCycle /\ UNCHANGED <<driver, decoded>>
    \/ Acknowledge /\ UNCHANGED <<driver, decoded>>
    \/ UpdateFromRecord /\ UNCHANGED <<driver, decoded>>
    \/ GetRecord /\ UNCHANGED <<driver, decoded>>

Spec == Init /\ [][Next]_vars

----------------------------------------------------------------------------
(* The same calls on an entity that has aged to the top of the u32 range.  *)
(* last_seen is private and only next_cycle raises it, so such an entity   *)
(* is a line-constructed one after that many next_cycle calls with no      *)
(* acknowledge: its state is Disconnected and its other fields are as      *)
(* constructed.                                                            *)

Aged(p, seen) ==
    [p EXCEPT !.game_info.last_seen = seen, !.game_info.state = "Disconnected"]

InitWide ==
    /\ \E status \in StatusLines, user \in Users, k \in 0..WideBelow :
        /\ player = Some(Aged(Player_new_from_status(status, user),
                              [hi |-> Limb - 1, lo |-> Limb - 1 - k]))
        /\ base = Some(status.state)
        /\ born = Some([steamid |-> status.steamid, user |-> user])
    /\ ret = None
    /\ logged = FALSE
    /\ panicked = FALSE
    /\ lastOp = "none"
    /\ prev = None
    /\ arg = None
    /\ cycles = HistCap
    /\ discCycles = HistCap
    /\ acks = 0
    /\ phase = "idle"
    /\ hist = <<>>
    /\ decoded = None

NextWide ==
    \/ NextCycle /\ UNCHANGED <<driver, decoded>>
    \/ NextCycleOverflowPanic /\ UNCHANGED <<driver, decoded>>
    \/ Acknowledge /\ UNCHANGED <<driver, decoded>>
    \/ UpdateFromRecord /\ UNCHANGED <<driver, decoded>>
    \/ GetRecord /\ UNCHANGED <<driver, decoded>>

SpecWide == InitWide /\ [][NextWide]_vars

----------------------------------------------------------------------------
(* The registry driver of one polling cycle, for one identity: next_cycle  *)
(* on the entity, then acknowledge if the cycle observed it (or            *)
(* construction if the registry holds no entity), then eviction if         *)
(* should_prune.  The identity's record is loaded from persistence and     *)
(* merged once, right after construction.                                  *)

\* the observations of the last three cycles, oldest first
Remember(h, e) == IF Len(h) < 3 THEN Append(h, e) ELSE <<h[2], h[3], e>>

InitDriver == InitCore /\ phase = "advance" /\ hist = <<>> /\ decoded = None

DriverAdvance ==
    /\ phase = "advance"
    /\ NextCycle
    /\ phase' = "observe"
    /\ UNCHANGED hist

DriverAdvanceEmpty ==
    /\ phase = "advance"
    /\ player = None
    /\ phase' = "observe"
    /\ UNCHANGED <<core, hist>>

DriverObserveNew ==
    /\ phase = "observe"
    /\ NewFromStatus \/ NewFromG15
    /\ hist' = IF player' = None THEN <<>> ELSE <<"new">>
    /\ phase' = "evict"

DriverObserveAck ==
    /\ phase = "observe"
    /\ Acknowledge
    /\ hist' = Remember(hist, "ack")
    /\ phase' = "evict"

DriverMiss ==
    /\ phase = "observe"
    /\ hist' = IF player = None THEN hist ELSE Remember(hist, "miss")
    /\ phase' = "evict"
    /\ UNCHANGED core

DriverEvict ==
    /\ phase = "evict"
    /\ Live
    /\ should_prune(GI)
    /\ player' = None
    /\ lastOp' = "evict"
    /\ prev' = player
    /\ arg' = None
    /\ ret' = None
    /\ logged' = FALSE
    /\ cycles' = 0
    /\ discCycles' = 0
    /\ acks' = 0
    /\ base' = None
    /\ born' = None
    /\ hist' = <<>>
    /\ phase' = "advance"
    /\ UNCHANGED panicked

DriverKeep ==
    /\ phase = "evict"
    /\ ~(Live /\ should_prune(GI))
    /\ phase' = "advance"
    /\ UNCHANGED <<core, hist>>

DriverLoad ==
    /\ lastOp \in {"new_from_status", "new_from_g15"}
    /\ UpdateFromRecord
    /\ UNCHANGED driver

NextDriver ==
    \/ DriverAdvance /\ UNCHANGED decoded
    \/ DriverAdvanceEmpty /\ UNCHANGED decoded
    \/ DriverObserveNew /\ UNCHANGED decoded
    \/ DriverObserveAck /\ UNCHANGED decoded
    \/ DriverMiss /\ UNCHANGED decoded
    \/ DriverEvict /\ UNCHANGED decoded
    \/ DriverKeep /\ UNCHANGED decoded
    \/ DriverLoad /\ UNCHANGED decoded

SpecDriver == InitDriver /\ [][NextDriver]_vars

----------------------------------------------------------------------------
(* Properties of the staleness machine and of the record merge *)

PrevP == prev[1]

PrevGI == prev[1].game_info

Called(op) == lastOp = op /\ prev # None /\ player # None /\ ~panicked

\* C1: from staleness counter 0, after n next_cycle calls with no acknowledge
\* should_prune is false for n in 1..5 and true for every n >= 6.
C1_MonotonicPruning ==
    player # None =>
        /\ cycles \in 1..5 => ~should_prune(GI)
        /\ cycles >= 6 => should_prune(GI)

C1_Witness == player # None /\ cycles = 6 /\ should_prune(GI)

\* C2: from staleness counter 0 in state Active or Spawning, the first
\* next_cycle leaves the state unchanged and the second sets Disconnected.
C2_DisconnectBoundary ==
    (player # None /\ base # None /\ base[1] \in {"Active", "Spawning"}) =>
        /\ cycles = 1 => GI.state = base[1]
        /\ cycles = 2 => GI.state = "Disconnected"

C2_Witness ==
    /\ Called("next_cycle")
    /\ cycles = 2
    /\ base = Some("Active")
    /\ PrevGI.state = "Active"
    /\ GI.state = "Disconnected"

\* C3: acknowledge sets the staleness counter to 0, turns Disconnected into
\* Spawning, leaves Active and Spawning alone, and changes no other field.
C3_AcknowledgeRule ==
    Called("acknowledge") =>
        /\ GI.last_seen = U32(0)
        /\ PrevGI.state = "Disconnected" => GI.state = "Spawning"
        /\ PrevGI.state \in {"Active", "Spawning"} => GI.state = PrevGI.state
        /\ P = [PrevP EXCEPT !.game_info.last_seen = GI.last_seen,
                             !.game_info.state = GI.state]

C3_Witness ==
    /\ Called("acknowledge")
    /\ PrevGI.state = "Disconnected"
    /\ PrevGI.last_seen = U32(3)
    /\ GI.state = "Spawning"

\* C4: a second acknowledge with no next_cycle since the first changes
\* nothing: two calls in a row leave the entity as one call left it.
C4_AcknowledgeIdempotent ==
    (Called("acknowledge") /\ acks >= 2) => player = prev

C4_Witness ==
    /\ Called("acknowledge")
    /\ acks = 2
    /\ GI.state = "Spawning"
    /\ base = Some("Spawning")

\* C5: update_from_record with a record of another steamid leaves the whole
\* entity as it was.
C5_MergeRejectsMismatch ==
    (Called("update_from_record") /\ arg[1].steamid # PrevP.steamid) =>
        player = prev

C5_Witness ==
    /\ Called("update_from_record")
    /\ arg[1].steamid # PrevP.steamid
    /\ arg[1].custom_data # PrevP.custom_data
    /\ arg[1].verdict # PrevP.local_verdict
    /\ arg[1].previous_names # PrevP.previous_names
    /\ logged

\* C6: update_from_record with a record of the entity's steamid sets
\* custom_data, local_verdict and previous_names to the record's values and
\* changes no other field.
C6_MergeFrame ==
    (Called("update_from_record") /\ arg[1].steamid = PrevP.steamid) =>
        /\ P.custom_data = arg[1].custom_data
        /\ P.local_verdict = arg[1].verdict
        /\ P.previous_names = arg[1].previous_names
        /\ P = [PrevP EXCEPT !.custom_data = P.custom_data,
                             !.local_verdict = P.local_verdict,
                             !.previous_names = P.previous_names]

C6_Witness ==
    /\ Called("update_from_record")
    /\ arg[1].steamid = PrevP.steamid
    /\ arg[1].custom_data # PrevP.custom_data
    /\ arg[1].verdict # PrevP.local_verdict
    /\ arg[1].previous_names # PrevP.previous_names
    /\ PrevGI.state = "Disconnected"
    /\ ~logged

\* C7: the record returned by get_record carries the entity's steamid,
\* custom_data, local_verdict and previous_names, and merging it back with
\* update_from_record is accepted and leaves the entity as it was.
C7_RecordRoundTrip ==
    /\ Called("get_record") =>
        /\ ret # None
        /\ ret[1].steamid = P.steamid
        /\ ret[1].custom_data = P.custom_data
        /\ ret[1].verdict = P.local_verdict
        /\ ret[1].previous_names = P.previous_names
        /\ ~wrong_record(P, ret[1])
        /\ update_from_record(P, ret[1]) = P
    /\ (Called("update_from_record") /\ arg = Some(get_record(PrevP))) =>
        /\ ~logged
        /\ player = prev

C7_Witness ==
    /\ Called("update_from_record")
    /\ arg = Some(get_record(PrevP))
    /\ P.custom_data # EmptyObject
    /\ P.local_verdict # "Player"
    /\ P.previous_names # <<>>
    /\ ~logged

\* `b` is `a + 1` as numbers
U32Succ(a, b) ==
    \/ a.lo < Limb - 1 /\ b = [hi |-> a.hi, lo |-> a.lo + 1]
    \/ a.lo = Limb - 1 /\ b = [hi |-> a.hi + 1, lo |-> 0]

\* C8: next_cycle leaves the staleness counter strictly greater, by exactly
\* one, for every value of the u32 counter, and an entity that was
\* Disconnected before the call is Disconnected after it.
C8_MonotonicAging ==
    (lastOp = "next_cycle" /\ prev # None) =>
        /\ ~panicked
        /\ U32Less(PrevGI.last_seen, GI.last_seen)
        /\ U32Succ(PrevGI.last_seen, GI.last_seen)
        /\ PrevGI.state = "Disconnected" => GI.state = "Disconnected"

\* C9: should_prune implies state Disconnected, and by then the entity has
\* entered at least 4 consecutive next_cycle calls in state Disconnected.
C9_PruneOnlyAfterDisconnected ==
    (player # None /\ should_prune(GI)) =>
        /\ GI.state = "Disconnected"
        /\ discCycles >= 4

C9_Witness ==
    /\ Called("next_cycle")
    /\ should_prune(GI)
    /\ ~should_prune(PrevGI)
    /\ discCycles = 4
    /\ base = Some("Active")

LastCycle == hist[Len(hist)]

\* C10 (as claimed): under the driver's order an entity acknowledged in
\* cycle k, missed only in cycle k+1 and observed again in cycle k+2 is
\* never put into state Disconnected.
C10_NoDisconnectAfterOneMiss ==
    (phase = "evict" /\ Called("acknowledge") /\ hist = <<"ack", "miss", "ack">>) =>
        PrevGI.state # "Disconnected"

\* C10 (amended): under the driver's order next_cycle leaves the state of
\* an entity observed in the preceding cycle as it was, and sets an entity
\* missed in the preceding cycle to Disconnected; the acknowledge of an
\* observation in the cycle after the miss then finds it Disconnected and
\* makes it Spawning.
C10_DisconnectAfterOneMiss ==
    /\ (phase = "observe" /\ Called("next_cycle") /\ hist # <<>>) =>
        /\ LastCycle = "miss" => GI.state = "Disconnected"
        /\ LastCycle \in {"new", "ack"} => GI.state = PrevGI.state
    /\ (phase = "evict" /\ Called("acknowledge") /\ Len(hist) >= 2
            /\ hist[Len(hist) - 1] = "miss") =>
        /\ PrevGI.state = "Disconnected"
        /\ GI.state = "Spawning"

C10_Witness ==
    /\ phase = "evict"
    /\ Called("acknowledge")
    /\ hist = <<"ack", "miss", "ack">>
    /\ PrevGI.state = "Disconnected"
    /\ GI.state = "Spawning"

----------------------------------------------------------------------------
(* Properties of the constructors *)

\* the dump-observation and local user of the construction just attempted
G15 == arg[1].g15

User == arg[1].user

\* C11: new_from_g15 returns no entity exactly when steamid, name or userid
\* is absent; an absent team, ping, score or deaths never makes it fail, and
\* a failed construction leaves no entity behind.
C11_DumpConstructionFails ==
    lastOp = "new_from_g15" =>
        /\ player = None <=>
            (G15.steamid = None \/ G15.name = None \/ G15.userid = None)
        /\ player = None => (born = None /\ base = None)

C11_Witness ==
    /\ lastOp = "new_from_g15"
    /\ player = None
    /\ G15.steamid # None
    /\ G15.userid # None
    /\ G15.name = None
    /\ G15.team # None
    /\ G15.score # None

\* C12: a successful new_from_g15 yields state Active, time 0, loss 0,
\* staleness counter 0, and team, ping, kills, deaths equal to the supplied
\* value when present and to Unassigned, 0, 0, 0 when absent, each on its own.
C12_DumpConstructionValues ==
    (lastOp = "new_from_g15" /\ player # None) =>
        /\ GI.state = "Active"
        /\ GI.time = 0
        /\ GI.loss = 0
        /\ GI.last_seen = U32(0)
        /\ GI.userid = G15.userid[1]
        /\ GI.team = (IF G15.team = None THEN "Unassigned" ELSE G15.team[1])
        /\ GI.ping = (IF G15.ping = None THEN 0 ELSE G15.ping[1])
        /\ GI.kills = (IF G15.score = None THEN 0 ELSE G15.score[1])
        /\ GI.deaths = (IF G15.deaths = None THEN 0 ELSE G15.deaths[1])

C12_Witness ==
    /\ lastOp = "new_from_g15"
    /\ player # None
    /\ G15.team = None
    /\ G15.ping # None
    /\ G15.score # None
    /\ G15.deaths = None
    /\ GI.kills = 4
    /\ GI.deaths = 0

\* C13: both constructors set is_self to true exactly when a local user is
\* supplied and equals the observation's steamid, and next_cycle,
\* acknowledge and update_from_record never change is_self afterwards.
C13_SelfFlag ==
    /\ (lastOp = "new_from_status" /\ player # None) =>
        P.is_self = (User # None /\ User[1] = arg[1].status.steamid)
    /\ (lastOp = "new_from_g15" /\ player # None) =>
        P.is_self = (User # None /\ User[1] = G15.steamid[1])
    /\ player # None =>
        P.is_self = (born[1].user # None /\ born[1].user[1] = born[1].steamid)

C13_Witness ==
    /\ lastOp = "update_from_record"
    /\ player # None
    /\ arg[1].steamid = P.steamid
    /\ P.is_self
    /\ born[1].user = Some(P.steamid)
    /\ GI.state = "Spawning"
    /\ GI.team = "Red"

----------------------------------------------------------------------------
(* The enumeration decoders, applied to integers in and out of range *)

InitDecode == InitCore /\ phase = "idle" /\ hist = <<>> /\ decoded = None

TeamTryFrom ==
    /\ \E val \in 0..MaxCode :
        LET r == Team_try_from(val)
        IN  decoded' = Some([fn |-> "Team::try_from",
                             input |-> val,
                             ok |-> r.ok,
                             value |-> r.val,
                             encoded |-> IF r.ok THEN Some(Team_as_u32(r.val))
                                         ELSE None])
    /\ UNCHANGED <<core, driver>>

ProfileVisibilityFrom ==
    /\ \E value \in -MaxCode..MaxCode :
        LET v == ProfileVisibility_from(value)
        IN  decoded' = Some([fn |-> "ProfileVisibility::from",
                             input |-> value,
                             ok |-> TRUE,
                             value |-> v,
                             encoded |-> Some(ProfileVisibility_as_i32(v))])
    /\ UNCHANGED <<core, driver>>

NextDecode ==
    \/ TeamTryFrom
    \/ ProfileVisibilityFrom

SpecDecode == InitDecode /\ [][NextDecode]_vars

Decoded == decoded[1]

\* C14: ProfileVisibility decoded from an integer outside {1,2,3} is Private
\* and never an error; Team decoded from an integer outside {0,1,2,3} is an
\* error and never a default; an in-range integer decodes to the variant
\* declared with it, so encoding the decoded value gives the integer back.
C14_DecodeAsymmetry ==
    decoded # None =>
        /\ Decoded.fn = "ProfileVisibility::from" =>
            /\ Decoded.ok
            /\ Decoded.value \in ProfileVisibility
            /\ Decoded.input \notin {1, 2, 3} => Decoded.value = "Private"
            /\ Decoded.input = 1 => Decoded.value = "Private"
            /\ Decoded.input = 2 => Decoded.value = "FriendsOnly"
            /\ Decoded.input = 3 => Decoded.value = "Public"
            /\ Decoded.input \in {1, 2, 3} => Decoded.encoded = Some(Decoded.input)
        /\ Decoded.fn = "Team::try_from" =>
            /\ Decoded.input \notin {0, 1, 2, 3} =>
                (~Decoded.ok /\ Decoded.value \notin Team /\ Decoded.encoded = None)
            /\ Decoded.input = 0 => (Decoded.ok /\ Decoded.value = "Unassigned")
            /\ Decoded.input = 1 => (Decoded.ok /\ Decoded.value = "Spectators")
            /\ Decoded.input = 2 => (Decoded.ok /\ Decoded.value = "Red")
            /\ Decoded.input = 3 => (Decoded.ok /\ Decoded.value = "Blu")
            /\ Decoded.input \in {0, 1, 2, 3} => Decoded.encoded = Some(Decoded.input)

C14_Witness ==
    /\ decoded # None
    /\ Decoded.fn = "Team::try_from"
    /\ Decoded.input = 9
    /\ ~Decoded.ok

----------------------------------------------------------------------------
(* Properties of the entity over its life *)

\* C15: in every state reached from either constructor by next_cycle,
\* acknowledge, get_record and update_from_record, the entity's steamid is
\* the steamid of the observation it was constructed from.
C15_IdentityImmutable ==
    player # None => (born # None /\ P.steamid = born[1].steamid)

C15_Witness ==
    /\ Called("update_from_record")
    /\ arg[1].steamid # PrevP.steamid
    /\ logged
    /\ PrevP.custom_data # EmptyObject
    /\ P.steamid = born[1].steamid
    /\ cycles >= 1

\* C16: once an entity's state is Spawning or Disconnected, no next_cycle,
\* acknowledge or update_from_record call makes it Active again.
C16_ActiveNeverReentered ==
    [][(player # None /\ GI.state # "Active") =>
        (player' # None /\ player'[1].game_info.state # "Active")]_vars

C16_Witness ==
    /\ Called("next_cycle")
    /\ base = Some("Spawning")
    /\ born # None
    /\ PrevGI.state = "Spawning"
    /\ GI.state = "Spawning"
    /\ P.game_info.team = "Red"

\* no cycle the driver remembers missed the entity
AlwaysObserved == hist # <<>> /\ \A i \in 1..Len(hist) : hist[i] # "miss"

\* C17: under the driver's order an entity acknowledged in every cycle has
\* staleness counter <= 1 at every step, is never moved to Disconnected by
\* next_cycle, and never satisfies should_prune.
C17_ObservedNeverAges ==
    (player # None /\ AlwaysObserved) =>
        /\ ~U32Greater(GI.last_seen, 1)
        /\ ~should_prune(GI)
        /\ phase = "observe" => GI.last_seen = U32(1)
        /\ phase # "observe" => GI.last_seen = U32(0)
        /\ Called("next_cycle") => GI.state = PrevGI.state
        /\ GI.state = base[1]

C17_Witness ==
    /\ phase = "observe"
    /\ Called("next_cycle")
    /\ hist = <<"ack", "ack", "ack">>
    /\ GI.last_seen = U32(1)
    /\ GI.state = "Active"

\* C18: right after acknowledge should_prune is false and the state is not
\* Disconnected, so under the driver's order an entity observed in the
\* current cycle is not evicted in that cycle, however long it had been
\* unobserved before.
C18_AcknowledgeRescues ==
    /\ Called("acknowledge") =>
        (~should_prune(GI) /\ GI.state # "Disconnected")
    /\ (phase = "evict" /\ player # None /\ hist # <<>>
            /\ LastCycle \in {"new", "ack"}) =>
        (~should_prune(GI) /\ ~ENABLED DriverEvict)

C18_Witness ==
    /\ phase = "evict"
    /\ Called("acknowledge")
    /\ LastCycle = "ack"
    /\ should_prune(PrevGI)
    /\ PrevGI.state = "Disconnected"
    /\ ~should_prune(GI)
    /\ GI.state = "Spawning"

====
